---- MODULE Spec2Model ----
(***************************************************************************)
(* Switch abstraction and session-management layer of app.py:              *)
(* Config, MockCiscoSwitch, CiscoSwitch, SwitchManager and the routes that *)
(* drive the manager (update_config, legacy_connect, clear_logs).          *)
(*                                                                         *)
(* Every manager operation is a pure operator over a record m holding the  *)
(* manager's fields (switch, connected, logs, current_credentials), the    *)
(* configuration it reads and writes (config), and observation fields that *)
(* record what the call did (called, ret, raised, history, clock,          *)
(* orphaned).  An action applies one operator to the current state.        *)
(***************************************************************************)
EXTENDS Integers, Sequences, FiniteSets, TLC

VARIABLES
    config,               \* Config: mock_mode, switch_ip (the fields that change)
    switch,               \* SwitchManager.switch: NoSwitch or a device record
    connected,            \* SwitchManager.connected
    logs,                 \* SwitchManager.logs
    current_credentials,  \* SwitchManager.current_credentials
    history,              \* every entry appended since the logs were last emptied
    clock,                \* number of add_log calls so far (stamps the entries)
    orphaned,             \* devices dropped by the manager with their session open
    last,                 \* the last operation: its arguments, pre-state and outcome
    threads               \* a connect() and a disconnect() running concurrently:
                          \* the statement each is at, and connect's local variables

vars == <<config, switch, connected, logs, current_credentials,
          history, clock, orphaned, last, threads>>

-----------------------------------------------------------------------------
(* Bounds of the model *)

MaxClock == 4        \* an operation starts only while clock < MaxClock
MaxLogClock == 102   \* the same, for the log-only specification
MaxErrClock == 2     \* log-only specification: ERROR entries only this early
MaxMockClock == 4    \* the same as MaxClock, for the mock-session specification
MaxDriverClock == 4  \* the same, for the remote-driver specification
MaxMockConnectClock == 5  \* mock sessions: a connect may still start this late,
                          \* so that it can follow connect, an action and a disconnect

-----------------------------------------------------------------------------
(* Python values *)

None == "<None>"

\* Python truthiness of an optional string: None and "" are falsy
Truthy(v) == v # None /\ v # ""

\* A variant that falls back only when the argument is absent:
\* `a if a is not None else b`
IfNotNone(a, b) == IF a # None THEN a ELSE b

\* `a or b`
Or(a, b) == IF Truthy(a) THEN a ELSE b

NoSwitch == [kind |-> "none"]
NoCredentials == [kind |-> "none"]

-----------------------------------------------------------------------------
(* Config *)

DefaultSwitchIp == "192.168.1.1"
DefaultUsername == "admin"
DefaultPassword == "admin"
SshPort == 22

Config(mock_mode) == [mock_mode |-> mock_mode, switch_ip |-> DefaultSwitchIp]

-----------------------------------------------------------------------------
(* MockCiscoSwitch *)

Interface(ps, max, va, macs, st) ==
    [port_security |-> ps, max_mac_addresses |-> max, violation_action |-> va,
     learned_mac_addresses |-> macs, status |-> st]

FixtureNames ==
    <<"GigabitEthernet0/1", "GigabitEthernet0/2", "GigabitEthernet0/3",
      "GigabitEthernet0/4", "GigabitEthernet0/5">>

Fixture ==
    ("GigabitEthernet0/1" :> Interface(TRUE, 2, "shutdown", <<"00:11:22:33:44:55">>, "up")) @@
    ("GigabitEthernet0/2" :> Interface(FALSE, 1, "restrict", <<>>, "down")) @@
    ("GigabitEthernet0/3" :> Interface(TRUE, 3, "protect",
                                       <<"00:AA:BB:CC:DD:EE", "00:FF:FF:FF:FF:FF">>, "up")) @@
    ("GigabitEthernet0/4" :> Interface(FALSE, 1, "shutdown", <<>>, "up")) @@
    ("GigabitEthernet0/5" :> Interface(TRUE, 1, "restrict", <<"00:12:34:56:78:90">>, "up"))

MockCiscoSwitch == [kind |-> "mock", interfaces |-> Fixture, connected |-> FALSE]

\* The outcome of a Device call: the device afterwards, the value returned,
\* and the exception raised (None when the call returns).
Returns(d, result) == [dev |-> d, result |-> result, error |-> None, text |-> ""]
Raises(d, error, text) == [dev |-> d, result |-> None, error |-> error, text |-> text]

NotFound(interface) == "Interface " \o interface \o " not found"

Mock_connect(d) == Returns([d EXCEPT !.connected = TRUE], TRUE)

Mock_disconnect(d) == Returns([d EXCEPT !.connected = FALSE], None)

Mock_get_interface_status(d, interface) ==
    IF interface \in DOMAIN d.interfaces
    THEN Returns(d, d.interfaces[interface])
    ELSE Raises(d, "ValueError", NotFound(interface))

\* A variant of enable that leaves the violation action as it was
Mock_enable_keeps_violation(d, interface, max_mac, violation_action) ==
    IF interface \notin DOMAIN d.interfaces
    THEN Raises(d, "ValueError", NotFound(interface))
    ELSE Returns([d EXCEPT !.interfaces[interface].port_security = TRUE,
                           !.interfaces[interface].max_mac_addresses = max_mac],
                 "Port security enabled on " \o interface)

Mock_enable_port_security(d, interface, max_mac, violation_action) ==
    IF interface \notin DOMAIN d.interfaces
    THEN Raises(d, "ValueError", NotFound(interface))
    ELSE Returns([d EXCEPT !.interfaces[interface].port_security = TRUE,
                           !.interfaces[interface].max_mac_addresses = max_mac,
                           !.interfaces[interface].violation_action = violation_action],
                 "Port security enabled on " \o interface
                    \o " with max MAC addresses: " \o ToString(max_mac)
                    \o ", violation action: " \o violation_action)

\* A variant of disable that also resets the maximum to 1
Mock_disable_resets_maximum(d, interface) ==
    IF interface \notin DOMAIN d.interfaces
    THEN Raises(d, "ValueError", NotFound(interface))
    ELSE Returns([d EXCEPT !.interfaces[interface].port_security = FALSE,
                           !.interfaces[interface].max_mac_addresses = 1,
                           !.interfaces[interface].learned_mac_addresses = <<>>],
                 "Port security disabled on " \o interface)

Mock_disable_port_security(d, interface) ==
    IF interface \notin DOMAIN d.interfaces
    THEN Raises(d, "ValueError", NotFound(interface))
    ELSE Returns([d EXCEPT !.interfaces[interface].port_security = FALSE,
                           !.interfaces[interface].learned_mac_addresses = <<>>],
                 "Port security disabled on " \o interface)

\* A variant of clear that forgets the addresses and leaves the link status
Mock_clear_keeps_status(d, interface) ==
    IF interface \notin DOMAIN d.interfaces
    THEN Raises(d, "ValueError", NotFound(interface))
    ELSE Returns([d EXCEPT !.interfaces[interface].learned_mac_addresses = <<>>],
                 "Port security cleared on " \o interface)

Mock_clear_port_security(d, interface) ==
    IF interface \notin DOMAIN d.interfaces
    THEN Raises(d, "ValueError", NotFound(interface))
    ELSE Returns([d EXCEPT !.interfaces[interface].learned_mac_addresses = <<>>,
                           !.interfaces[interface].status = "up"],
                 "Port security cleared on " \o interface)

Mock_get_all_interfaces(d) == Returns(d, FixtureNames)

-----------------------------------------------------------------------------
(* CiscoSwitch.  The remote session is outside the program: env is what it *)
(* does on this call ("ok": the library call returns, "fail": it raises;   *)
(* for connect also "no_library": netmiko cannot be imported).             *)

RealEnv == {"ok", "fail"}
ConnectEnv == {"ok", "fail", "no_library"}

CiscoSwitch(ip, username, password, port) ==
    [kind |-> "real", ip |-> ip, username |-> username, password |-> password,
     port |-> port, connection |-> None, connected |-> FALSE]

Real_connect(d, env) ==
    IF env = "ok"
    THEN Returns([d EXCEPT !.connection = "session", !.connected = TRUE], TRUE)
    ELSE Returns(d, FALSE)

Real_disconnect(d, env) ==
    IF d.connection # None
    THEN IF env = "ok"
         THEN Returns([d EXCEPT !.connection = None, !.connected = FALSE], None)
         ELSE Raises(d, "Exception", "session disconnect failed")
    ELSE Returns(d, None)

\* The text a working session answers with (a sequence of lower-case words)
SessionOutput == <<"port", "security", "enabled", "up">>

Real_execute_command(d, command, env) ==
    IF d.connection = None
    THEN Raises(d, "ConnectionError", "Not connected to switch")
    ELSE IF env = "ok"
         THEN Returns(d, SessionOutput)
         ELSE Raises(d, "Exception", "send_command failed")

Contains(output, word) == \E i \in 1..Len(output) : output[i] = word

Real_get_interface_status(d, interface, env) ==
    LET r == Real_execute_command(d, "show port-security interface " \o interface, env)
    IN IF r.error # None THEN r
       ELSE Returns(d, Interface(Contains(r.result, "enabled"), 1, "shutdown", <<>>,
                                 IF Contains(r.result, "up") THEN "up" ELSE "down"))

\* self.connection.send_config_set(...): an attribute of None when no session
Real_send_config_set(d, env) ==
    IF d.connection = None
    THEN Raises(d, "AttributeError", "'NoneType' object has no attribute 'send_config_set'")
    ELSE IF env = "ok"
         THEN Returns(d, "")
         ELSE Raises(d, "Exception", "send_config_set failed")

Real_enable_port_security(d, interface, max_mac, violation_action, env) ==
    LET r == Real_send_config_set(d, env)
    IN IF r.error # None THEN r
       ELSE Returns(d, "Port security enabled on " \o interface)

Real_disable_port_security(d, interface, env) ==
    LET r == Real_send_config_set(d, env)
    IN IF r.error # None THEN r
       ELSE Returns(d, "Port security disabled on " \o interface)

Real_clear_port_security(d, interface, env) ==
    LET r == Real_execute_command(d, "clear port-security sticky interface " \o interface, env)
    IN IF r.error # None THEN r
       ELSE Returns(d, "Port security cleared on " \o interface)

-----------------------------------------------------------------------------
(* The Device interface: dispatch on the class of self.switch *)

Device_connect(d, env) ==
    IF d.kind = "mock" THEN Mock_connect(d) ELSE Real_connect(d, env)

Device_disconnect(d, env) ==
    IF d.kind = "mock" THEN Mock_disconnect(d) ELSE Real_disconnect(d, env)

Device_get_interface_status(d, interface, env) ==
    IF d.kind = "mock" THEN Mock_get_interface_status(d, interface)
    ELSE Real_get_interface_status(d, interface, env)

Device_enable_port_security(d, interface, max_mac, violation_action, env) ==
    IF d.kind = "mock" THEN Mock_enable_port_security(d, interface, max_mac, violation_action)
    ELSE Real_enable_port_security(d, interface, max_mac, violation_action, env)

Device_disable_port_security(d, interface, env) ==
    IF d.kind = "mock" THEN Mock_disable_port_security(d, interface)
    ELSE Real_disable_port_security(d, interface, env)

Device_clear_port_security(d, interface, env) ==
    IF d.kind = "mock" THEN Mock_clear_port_security(d, interface)
    ELSE Real_clear_port_security(d, interface, env)

\* A device object whose session is open
HasOpenSession(d) == d.kind # "none" /\ d.connected

-----------------------------------------------------------------------------
(* SwitchManager *)

LogCap == 100

Levels == {"INFO", "ERROR"}

\* A variant that keeps the oldest entries: `self.logs[:100]`
keep_first(L) ==
    IF Len(L) > LogCap THEN SubSeq(L, 1, LogCap) ELSE L

\* `if len(self.logs) > 100: self.logs = self.logs[-100:]`
keep_last(L) ==
    IF Len(L) > LogCap THEN SubSeq(L, Len(L) - LogCap + 1, Len(L)) ELSE L

add_log(m, message, level) ==
    LET log_entry == [timestamp |-> m.clock, level |-> level, message |-> message]
    IN [m EXCEPT !.logs = keep_last(Append(m.logs, log_entry)),
                 !.history = Append(m.history, log_entry),
                 !.clock = m.clock + 1]

\* The value an operation returns
Tuple(success, message) == [kind |-> "tuple", success |-> success, message |-> message]
NoReturn == [kind |-> "none", success |-> FALSE, message |-> ""]
Json(success, message) == [kind |-> "json", success |-> success, message |-> message]

\* One Device call made by the operation, and how it ended
\* (method, outcome, kind of the exception raised)
Call(name, r) == <<name, IF r.error # None THEN "raised" ELSE "returned", r.error>>
ConnectCall(r) == <<"connect", IF r.error # None THEN "raised"
                               ELSE IF r.result THEN "true" ELSE "false", r.error>>

\* A variant of `self.switch = d` that keeps a device the manager already holds
set_switch_once(m, d) == IF m.switch # NoSwitch THEN m ELSE [m EXCEPT !.switch = d]

\* `self.switch = d`: the object referenced before is dropped as it is
set_switch(m, d) ==
    [m EXCEPT !.switch = d,
              !.orphaned = IF HasOpenSession(m.switch) THEN m.orphaned + 1 ELSE m.orphaned]

\* The statements of connect's success branch and of disconnect, one by one
set_connected(m) == [m EXCEPT !.connected = TRUE]

store_credentials(m, credentials) == [m EXCEPT !.current_credentials = credentials]

clear_connected(m) == [m EXCEPT !.connected = FALSE]

\* A variant of disconnect's last assignment that keeps the credentials
keep_credentials(m) == m

clear_credentials(m) == [m EXCEPT !.current_credentials = NoCredentials]

\* A variant that sets the flag and stores no credentials
mark_connected_only(m, switch_ip, switch_username, switch_password) ==
    [m EXCEPT !.connected = TRUE]

\* `self.connected = True; self.current_credentials = {...}`
mark_connected(m, switch_ip, switch_username, switch_password) ==
    [m EXCEPT !.connected = TRUE,
              !.current_credentials = [ip |-> switch_ip, username |-> switch_username,
                                       password |-> switch_password]]

SwitchManager_connect(m, ip, username, password, env) ==
    LET switch_ip == Or(ip, m.config.switch_ip)
        switch_username == Or(username, DefaultUsername)
        switch_password == Or(password, DefaultPassword)
        m1 == IF m.config.mock_mode
              THEN add_log(set_switch(m, MockCiscoSwitch),
                           "Using mock mode for testing", "INFO")
              ELSE add_log(set_switch(m, CiscoSwitch(switch_ip, switch_username,
                                                     switch_password, SshPort)),
                           "Connecting to real switch at " \o switch_ip, "INFO")
        r == Device_connect(m1.switch, env)
        m2 == [m1 EXCEPT !.switch = r.dev, !.called = Append(m1.called, ConnectCall(r))]
    IN IF r.error # None
       THEN LET error_msg == "Connection error: " \o r.text
            IN [add_log(m2, error_msg, "ERROR") EXCEPT !.ret = Tuple(FALSE, error_msg)]
       ELSE IF r.result
            THEN [add_log(mark_connected(m2, switch_ip, switch_username, switch_password),
                          "Successfully connected to switch", "INFO")
                    EXCEPT !.ret = Tuple(TRUE, "Connected successfully")]
            ELSE [add_log(m2, "Failed to connect to switch", "ERROR")
                    EXCEPT !.ret = Tuple(FALSE, "Connection failed")]

SwitchManager_disconnect(m, env) ==
    IF m.switch # NoSwitch
    THEN LET r == Device_disconnect(m.switch, env)
             m1 == [m EXCEPT !.switch = r.dev,
                             !.called = Append(m.called, Call("disconnect", r))]
         IN IF r.error # None
            THEN [m1 EXCEPT !.raised = r.error]
            ELSE add_log([m1 EXCEPT !.connected = FALSE,
                                    !.current_credentials = NoCredentials],
                         "Disconnected from switch", "INFO")
    ELSE m

KnownActions == {"enable", "disable", "clear", "status"}

\* The Device call each action dispatches to
Dispatch(d, interface, action, max_mac, violation_action, env) ==
    CASE action = "enable" ->
             Device_enable_port_security(d, interface, max_mac, violation_action, env)
      [] action = "disable" -> Device_disable_port_security(d, interface, env)
      [] action = "clear" -> Device_clear_port_security(d, interface, env)
      [] action = "status" -> Device_get_interface_status(d, interface, env)

MethodOf(action) ==
    CASE action = "enable" -> "enable_port_security"
      [] action = "disable" -> "disable_port_security"
      [] action = "clear" -> "clear_port_security"
      [] action = "status" -> "get_interface_status"

\* The INFO message and the result of a branch that succeeded
InfoOf(action, interface) ==
    CASE action = "enable" -> "Enabled port security on " \o interface
      [] action = "disable" -> "Disabled port security on " \o interface
      [] action = "clear" -> "Cleared port security on " \o interface
      [] action = "status" -> "Retrieved status for " \o interface

ResultOf(action, interface, r) ==
    IF action = "status"
    THEN "Port security status for " \o interface \o ":\n" \o ToString(r.result)
    ELSE r.result

\* A variant of the guard that tests the device reference: `if not self.switch:`
no_switch(m) == m.switch = NoSwitch

\* A variant of the unknown-action branch that also logs the failure
unknown_action_logged(m, action) ==
    [add_log(m, "Unknown action: " \o action, "ERROR")
        EXCEPT !.ret = Tuple(FALSE, "Unknown action: " \o action)]

\* A variant of the except branch that returns the message without logging it
action_failed_silently(m, text) ==
    [m EXCEPT !.ret = Tuple(FALSE, "Action failed: " \o text)]

\* `if not self.connected:`
not_connected(m) == ~m.connected

\* The unknown-action branch: `return False, f"Unknown action: {action}"`
unknown_action(m, action) == [m EXCEPT !.ret = Tuple(FALSE, "Unknown action: " \o action)]

\* The except branch: the error is logged and returned as a message
action_failed(m, text) ==
    LET error_msg == "Action failed: " \o text
    IN [add_log(m, error_msg, "ERROR") EXCEPT !.ret = Tuple(FALSE, error_msg)]

SwitchManager_execute_port_security_action(m, interface, action, max_mac, violation_action, env) ==
    IF not_connected(m)
    THEN [m EXCEPT !.ret = Tuple(FALSE, "Not connected to switch")]
    ELSE IF action \in KnownActions
         THEN LET r == Dispatch(m.switch, interface, action, max_mac, violation_action, env)
                  m1 == [m EXCEPT !.switch = r.dev,
                                  !.called = Append(m.called, Call(MethodOf(action), r))]
              IN IF r.error # None
                 THEN action_failed(m1, r.text)
                 ELSE [add_log(m1, InfoOf(action, interface), "INFO")
                         EXCEPT !.ret = Tuple(TRUE, ResultOf(action, interface, r))]
         ELSE unknown_action(m, action)

-----------------------------------------------------------------------------
(* Routes that change the manager or the configuration *)

ModeName(mock_mode) == IF mock_mode THEN "mock" ELSE "real"

\* update_config: data may carry 'mock_mode' and may carry 'switch_ip'
update_config(m, has_mock_mode, mock_mode, has_switch_ip, switch_ip, env) ==
    LET m1 == IF has_mock_mode
              THEN LET a == add_log([m EXCEPT !.config.mock_mode = mock_mode],
                                    "Switched to " \o ModeName(mock_mode) \o " mode", "INFO")
                   IN IF a.connected THEN SwitchManager_disconnect(a, env) ELSE a
              ELSE m
    IN IF m1.raised # None
       THEN m1
       ELSE LET m2 == IF has_switch_ip
                      THEN add_log([m1 EXCEPT !.config.switch_ip = switch_ip],
                                   "Updated switch IP to " \o switch_ip, "INFO")
                      ELSE m1
            IN [m2 EXCEPT !.ret = Json(TRUE, "success")]

\* get_all_interfaces of the real driver: the names found in the output, and
\* the three default names when there are none or the command fails
DefaultInterfaces == <<"GigabitEthernet0/1", "GigabitEthernet0/2", "GigabitEthernet0/3">>

IsInterfaceName(w) == w \in {FixtureNames[i] : i \in 1..Len(FixtureNames)}

Real_get_all_interfaces(d, env) ==
    LET r == Real_execute_command(d, "show interfaces status", env)
    IN IF r.error # None
       THEN Returns(d, DefaultInterfaces)
       ELSE LET interfaces == SelectSeq(r.result, IsInterfaceName)
            IN Returns(d, IF interfaces # <<>> THEN interfaces ELSE DefaultInterfaces)

Device_get_all_interfaces(d, env) ==
    IF d.kind = "mock" THEN Mock_get_all_interfaces(d) ELSE Real_get_all_interfaces(d, env)

\* legacy_connect: forces real mode, connects with the credentials given and,
\* on success, reads the status of the first interfaces (errors swallowed)
legacy_connect(m, ip, username, password, env, env2) ==
    IF ~Truthy(ip) \/ ~Truthy(username) \/ ~Truthy(password)
    THEN [m EXCEPT !.ret = Json(FALSE, "IP, username, and password are required")]
    ELSE LET original_mode == m.config.mock_mode
             c == SwitchManager_connect([m EXCEPT !.config.mock_mode = FALSE],
                                        ip, username, password, env)
         IN IF c.ret.success
            THEN LET r == Device_get_all_interfaces(c.switch, env2)
                     s == Device_get_interface_status(c.switch, r.result[1], env2)
                 IN [c EXCEPT !.called = c.called \o <<Call("get_all_interfaces", r),
                                                       Call("get_interface_status", s)>>,
                              !.ret = Json(TRUE, c.ret.message)]
            ELSE [c EXCEPT !.config.mock_mode = original_mode,
                           !.ret = Json(FALSE, c.ret.message)]

\* clear_logs
clear_logs(m) ==
    add_log([m EXCEPT !.logs = <<>>, !.history = <<>>, !.ret = Json(TRUE, "success")],
            "Logs cleared", "INFO")

-----------------------------------------------------------------------------
(* Inputs *)

\* (ip, username, password) as given to connect: each absent (None), empty or set
CredentialInputs ==
    {<<None, None, None>>, <<"", "", "">>, <<"10.0.0.2", "root", "secret">>,
     <<"10.0.0.2", "", None>>, <<None, "root", "">>}
InterfaceInputs == {"GigabitEthernet0/2", "GigabitEthernet0/9"}
ActionInputs == KnownActions \cup {"reboot"}
\* (max_mac, violation_action) as given to the enable action
EnableInputs == {<<1, "shutdown">>, <<3, "restrict">>}
LogMessages == {"note"}

-----------------------------------------------------------------------------
(* State machine *)

\* The state an operation starts from
Start ==
    [config |-> config, switch |-> switch, connected |-> connected, logs |-> logs,
     current_credentials |-> current_credentials, history |-> history, clock |-> clock,
     orphaned |-> orphaned, called |-> <<>>, ret |-> NoReturn, raised |-> None]

\* What the last operation saw before it ran
Pre ==
    [connected |-> connected, has_switch |-> switch # NoSwitch,
     open |-> HasOpenSession(switch), mock_mode |-> config.mock_mode, clock |-> clock]

\* The state an operation leaves
Finish(op, args, m) ==
    /\ config' = m.config
    /\ switch' = m.switch
    /\ connected' = m.connected
    /\ logs' = m.logs
    /\ current_credentials' = m.current_credentials
    /\ history' = m.history
    /\ clock' = m.clock
    /\ orphaned' = m.orphaned
    /\ last' = [op |-> op, args |-> args, pre |-> Pre, ret |-> m.ret,
                raised |-> m.raised, called |-> m.called]
    /\ threads' = threads

\* Neither of the two concurrent calls has started
Ready ==
    [cpc |-> "resolve", dpc |-> "test", overlapped |-> FALSE,
     credentials |-> NoCredentials, result |-> FALSE]

Init ==
    /\ config \in {Config(TRUE), Config(FALSE)}
    /\ switch = NoSwitch
    /\ connected = FALSE
    /\ logs = <<>>
    /\ current_credentials = NoCredentials
    /\ history = <<>>
    /\ clock = 0
    /\ orphaned = 0
    /\ last = [op |-> "init", args |-> <<>>, pre |-> Pre, ret |-> NoReturn,
               raised |-> None, called |-> <<>>]
    /\ threads = Ready

\* What the remote session may do on a call; a mock device has none
SessionEnv(d, envs) == IF d.kind = "real" THEN envs ELSE {"ok"}

Connect ==
    /\ clock < MaxClock
    /\ \E args \in CredentialInputs,
          env \in IF config.mock_mode THEN {"ok"} ELSE ConnectEnv :
          Finish("connect", args,
                 SwitchManager_connect(Start, args[1], args[2], args[3], env))

LegacyConnect ==
    /\ clock < MaxClock
    /\ \E args \in CredentialInputs, env \in ConnectEnv, env2 \in RealEnv :
          /\ env # "ok" => env2 = "ok"
          /\ Finish("legacy_connect", args,
                    legacy_connect(Start, args[1], args[2], args[3], env, env2))

Disconnect ==
    /\ clock < MaxClock
    /\ \E env \in SessionEnv(switch, RealEnv) :
          Finish("disconnect", <<>>, SwitchManager_disconnect(Start, env))

ExecutePortSecurityAction ==
    /\ clock < MaxClock
    /\ \E interface \in InterfaceInputs, action \in ActionInputs,
          params \in EnableInputs, env \in SessionEnv(switch, RealEnv) :
          /\ action # "enable" => params = <<1, "shutdown">>
          /\ Finish("execute_port_security_action",
                    <<interface, action, params[1], params[2]>>,
                    SwitchManager_execute_port_security_action(
                        Start, interface, action, params[1], params[2], env))

UpdateConfig ==
    /\ clock < MaxClock
    /\ \E has_mock_mode \in BOOLEAN, mock_mode \in BOOLEAN, has_switch_ip \in BOOLEAN,
          env \in SessionEnv(switch, RealEnv) :
          /\ ~has_mock_mode => mock_mode
          /\ Finish("update_config", <<has_mock_mode, mock_mode, has_switch_ip>>,
                    update_config(Start, has_mock_mode, mock_mode, has_switch_ip,
                                  "10.0.0.2", env))

AddLog(bound, errors) ==
    /\ clock < bound
    /\ \E message \in LogMessages, level \in Levels :
          /\ level = "ERROR" => clock < errors
          /\ Finish("add_log", <<message, level>>, add_log(Start, message, level))

ClearLogs(bound) ==
    /\ clock < bound
    /\ Finish("clear_logs", <<>>, clear_logs(Start))

Next ==
    \/ Connect
    \/ LegacyConnect
    \/ Disconnect
    \/ ExecutePortSecurityAction
    \/ UpdateConfig
    \/ AddLog(MaxClock, MaxClock)
    \/ ClearLogs(MaxClock)

Spec == Init /\ [][Next]_vars

\* The audit log alone, driven past its capacity
NextLog ==
    \/ AddLog(MaxLogClock, MaxErrClock)
    \/ ClearLogs(MaxLogClock)

SpecLog == Init /\ [][NextLog]_vars

\* A mock session: the manager in mock mode, connecting with the configured
\* defaults and acting on every interface of the fixture and on unknown ones
MockInterfaceInputs ==
    {FixtureNames[i] : i \in 1..Len(FixtureNames)} \cup {"GigabitEthernet0/9"}

InitMock == Init /\ config.mock_mode

MockConnect ==
    /\ clock < MaxMockConnectClock
    /\ Finish("connect", <<None, None, None>>,
              SwitchManager_connect(Start, None, None, None, "ok"))

MockExecute ==
    /\ clock < MaxMockClock
    /\ \E interface \in MockInterfaceInputs, action \in KnownActions,
          params \in EnableInputs :
          /\ action # "enable" => params = <<1, "shutdown">>
          /\ Finish("execute_port_security_action",
                    <<interface, action, params[1], params[2]>>,
                    SwitchManager_execute_port_security_action(
                        Start, interface, action, params[1], params[2], "ok"))

MockDisconnect ==
    /\ clock < MaxMockClock
    /\ Finish("disconnect", <<>>, SwitchManager_disconnect(Start, "ok"))

NextMock == MockConnect \/ MockExecute \/ MockDisconnect

SpecMock == InitMock /\ [][NextMock]_vars

\* The remote driver alone: the manager builds a CiscoSwitch and tries to
\* connect it; the methods of that object are then called directly, as
\* legacy_connect and get_interfaces call them on switch_manager.switch
DriverMethods ==
    {"execute_command", "get_interface_status", "enable_port_security",
     "disable_port_security", "clear_port_security"}

DriverDispatch(d, method, interface, env) ==
    CASE method = "execute_command" ->
             Real_execute_command(d, "show port-security interface " \o interface, env)
      [] method = "get_interface_status" -> Real_get_interface_status(d, interface, env)
      [] method = "enable_port_security" ->
             Real_enable_port_security(d, interface, 1, "shutdown", env)
      [] method = "disable_port_security" -> Real_disable_port_security(d, interface, env)
      [] method = "clear_port_security" -> Real_clear_port_security(d, interface, env)

InitDriver == Init /\ ~config.mock_mode

DriverConnect ==
    /\ clock < MaxDriverClock
    /\ \E env \in ConnectEnv :
          Finish("connect", <<None, None, None>>,
                 SwitchManager_connect(Start, None, None, None, env))

DriverCall ==
    /\ switch.kind = "real"
    /\ \E method \in DriverMethods, interface \in MockInterfaceInputs, env \in RealEnv :
          LET r == DriverDispatch(switch, method, interface, env)
          IN Finish("driver_call", <<method, interface>>,
                    [Start EXCEPT !.switch = r.dev,
                                  !.called = <<Call(method, r)>>,
                                  !.raised = r.error])

NextDriver == DriverConnect \/ DriverCall

SpecDriver == InitDriver /\ [][NextDriver]_vars

-----------------------------------------------------------------------------
(***************************************************************************)
(* SpecRace: one connect() and one disconnect() on the shared manager, run *)
(* by two request threads with no lock, interleaved statement by statement *)
(***************************************************************************)
\* A call that has executed a statement and has not returned yet
Running(pc, first) == pc \notin {first, "done"}

\* The manager after a statement, and the two calls' positions
Commit(m, t) ==
    /\ config' = m.config
    /\ switch' = m.switch
    /\ connected' = m.connected
    /\ logs' = m.logs
    /\ current_credentials' = m.current_credentials
    /\ history' = m.history
    /\ clock' = m.clock
    /\ orphaned' = m.orphaned
    /\ last' = last
    /\ threads' = t

\* connect() moves to its next statement; the calls overlap when
\* disconnect() is in the middle of its body at that moment
ConnectAt(pc) == threads.cpc = pc

ConnectTo(pc) ==
    [threads EXCEPT !.cpc = pc,
                    !.overlapped = threads.overlapped \/ Running(threads.dpc, "test")]

DisconnectAt(pc) == threads.dpc = pc

DisconnectTo(pc) ==
    [threads EXCEPT !.dpc = pc,
                    !.overlapped = threads.overlapped \/ Running(threads.cpc, "resolve")]

\* switch_ip = ip or config.switch_ip, ... (the local variables)
ConnectResolve ==
    /\ ConnectAt("resolve")
    /\ \E args \in {<<None, None, None>>, <<"10.0.0.5", "operator", "secret">>} :
          Commit(Start, [ConnectTo("create") EXCEPT !.credentials =
                            [ip |-> Or(args[1], config.switch_ip),
                             username |-> Or(args[2], DefaultUsername),
                             password |-> Or(args[3], DefaultPassword)]])

\* self.switch = MockCiscoSwitch() / CiscoSwitch(...)
ConnectCreate ==
    /\ ConnectAt("create")
    /\ Commit(set_switch(Start, IF config.mock_mode THEN MockCiscoSwitch
                                ELSE CiscoSwitch(threads.credentials.ip,
                                                 threads.credentials.username,
                                                 threads.credentials.password, SshPort)),
              ConnectTo("announce"))

\* self.add_log("Using mock mode for testing" / "Connecting to real switch at ...")
ConnectAnnounce ==
    /\ ConnectAt("announce")
    /\ Commit(add_log(Start, IF config.mock_mode THEN "Using mock mode for testing"
                             ELSE "Connecting to real switch at " \o threads.credentials.ip,
                      "INFO"),
              ConnectTo("open"))

\* if self.switch.connect():
ConnectOpen ==
    /\ ConnectAt("open")
    /\ \E env \in SessionEnv(switch, RealEnv) :
          LET r == Device_connect(switch, env)
          IN Commit([Start EXCEPT !.switch = r.dev],
                    [ConnectTo(IF r.result THEN "flag" ELSE "failed")
                        EXCEPT !.result = r.result])

\* self.connected = True
ConnectFlag ==
    /\ ConnectAt("flag")
    /\ Commit(set_connected(Start), ConnectTo("store"))

\* self.current_credentials = {...}
ConnectStore ==
    /\ ConnectAt("store")
    /\ Commit(store_credentials(Start, threads.credentials), ConnectTo("report"))

\* self.add_log("Successfully connected to switch"); return True, ...
ConnectReport ==
    /\ ConnectAt("report")
    /\ Commit(add_log(Start, "Successfully connected to switch", "INFO"), ConnectTo("done"))

\* self.add_log("Failed to connect to switch", "ERROR"); return False, ...
ConnectFailed ==
    /\ ConnectAt("failed")
    /\ Commit(add_log(Start, "Failed to connect to switch", "ERROR"), ConnectTo("done"))

\* if self.switch:
DisconnectTest ==
    /\ DisconnectAt("test")
    /\ Commit(Start, DisconnectTo(IF switch # NoSwitch THEN "close" ELSE "done"))

\* self.switch.disconnect(): an exception ends the call
DisconnectClose ==
    /\ DisconnectAt("close")
    /\ \E env \in SessionEnv(switch, RealEnv) :
          LET r == Device_disconnect(switch, env)
          IN Commit([Start EXCEPT !.switch = r.dev],
                    DisconnectTo(IF r.error # None THEN "done" ELSE "flag"))

\* self.connected = False
DisconnectFlag ==
    /\ DisconnectAt("flag")
    /\ Commit(clear_connected(Start), DisconnectTo("clear"))

\* self.current_credentials = None
DisconnectClear ==
    /\ DisconnectAt("clear")
    /\ Commit(clear_credentials(Start), DisconnectTo("report"))

\* self.add_log("Disconnected from switch")
DisconnectReport ==
    /\ DisconnectAt("report")
    /\ Commit(add_log(Start, "Disconnected from switch", "INFO"), DisconnectTo("done"))

NextRace ==
    \/ ConnectResolve
    \/ ConnectCreate
    \/ ConnectAnnounce
    \/ ConnectOpen
    \/ ConnectFlag
    \/ ConnectStore
    \/ ConnectReport
    \/ ConnectFailed
    \/ DisconnectTest
    \/ DisconnectClose
    \/ DisconnectFlag
    \/ DisconnectClear
    \/ DisconnectReport

SpecRace == Init /\ [][NextRace]_vars

(* Properties *)

\* The entries the last operation appended to the audit log
NewEntries == SelectSeq(history, LAMBDA e : e.timestamp >= last.pre.clock)

OfLevel(entries, level) == SelectSeq(entries, LAMBDA e : e.level = level)

\* The Device calls the last operation made, by method name
CallsOf(name) == SelectSeq(last.called, LAMBDA c : c[1] = name)

IsExecute == last.op = "execute_port_security_action"

\* C1: in every reachable state, connected = true implies that the manager
\* holds a Device and holds Credentials.
C1_ConnectedHasDeviceAndCredentials ==
    connected => (switch # NoSwitch /\ current_credentials # NoCredentials)

\* C1 witness: the manager is still Connected after a disconnect whose Device
\* call raised, and after a connect whose Device refused
C1_Witness ==
    /\ connected
    /\ \/ (last.op = "disconnect" /\ last.raised # None)
       \/ (last.op = "connect" /\ ~last.ret.success)

\* C2: executePortSecurityAction on a Disconnected manager returns
\* (false, "Not connected to switch") for every interface and action, calls
\* no Device operation and leaves the Device and the audit log unchanged.
C2_DisconnectedActionRefused ==
    [][(last'.op = "execute_port_security_action" /\ ~connected)
          => /\ last'.ret = Tuple(FALSE, "Not connected to switch")
             /\ last'.called = <<>>
             /\ last'.raised = None
             /\ switch' = switch
             /\ logs' = logs]_vars

\* C2 witness: an action was requested while Disconnected with a Device
\* still referenced by the manager
C2_Witness ==
    /\ IsExecute
    /\ ~last.pre.connected
    /\ last.pre.has_switch
    /\ last.args[2] \in KnownActions

\* C3: the audit log never holds more than 100 entries and is exactly the
\* most recent min(n, 100) of the n entries appended since the last clear,
\* in insertion order.
C3_LogIsLastHundred ==
    /\ Len(logs) <= LogCap
    /\ LET n == Len(history)
           k == IF n < LogCap THEN n ELSE LogCap
       IN logs = SubSeq(history, n - k + 1, n)

\* C3 witness: more than 100 entries were appended and the oldest are gone
C3_Witness ==
    /\ last.op = "add_log"
    /\ Len(history) > LogCap
    /\ Len(logs) = LogCap
    /\ logs[1] # history[1]

\* C4: disconnect() on a manager that is already Disconnected is a no-op:
\* it calls no Device operation and leaves connected, the Credentials, the
\* Device reference and the audit log as they were.
C4_DisconnectWhenDisconnectedIsNoOp ==
    [][(last'.op = "disconnect" /\ ~connected)
          => /\ last'.called = <<>>
             /\ connected' = connected
             /\ current_credentials' = current_credentials
             /\ switch' = switch
             /\ logs' = logs]_vars

\* The operations that reached SwitchManager.connect
ConnectInvoked ==
    /\ last.op \in {"connect", "legacy_connect"}
    /\ CallsOf("connect") # <<>>

\* C5: a connect invoked while the manager holds a connected Device first
\* runs that Device's disconnect(), so no Device is ever dropped with its
\* session open.
C5_ReconnectDisconnectsFirst ==
    /\ orphaned = 0
    /\ (ConnectInvoked /\ last.pre.open) => last.called[1][1] = "disconnect"

\* A connect whose Device refused (returned false or raised)
ConnectRefused ==
    /\ ConnectInvoked
    /\ CallsOf("connect")[1][2] \in {"false", "raised"}

\* C6: whatever the state before, a connect whose Device refuses returns
\* (false, message), appends exactly one ERROR entry and leaves the manager
\* Disconnected.
C6_RefusedConnectLeavesDisconnected ==
    ConnectRefused
        => /\ ~last.ret.success
           /\ last.ret.message # ""
           /\ last.raised = None
           /\ Len(OfLevel(NewEntries, "ERROR")) = 1
           /\ ~connected

\* A connect whose Device accepted
ConnectAccepted ==
    /\ ConnectInvoked
    /\ CallsOf("connect")[1][2] = "true"

Defaults == <<config.switch_ip, DefaultUsername, DefaultPassword>>

Stored ==
    <<current_credentials.ip, current_credentials.username, current_credentials.password>>

SucceededAsInfo ==
    /\ last.ret.success
    /\ last.raised = None
    /\ connected
    /\ logs # <<>>
    /\ logs[Len(logs)].level = "INFO"

\* C7 as stated: after a connect whose Device accepted, the call succeeded,
\* the manager is Connected, the last log entry is INFO, and each stored
\* credential is the argument when one was supplied (the empty string
\* included) and the configured default otherwise.
C7_SuppliedCredentialsStored ==
    ConnectAccepted
        => /\ SucceededAsInfo
           /\ \A i \in 1..3 :
                 Stored[i] = IF last.args[i] # None THEN last.args[i] ELSE Defaults[i]

\* C7 as amended: each stored credential is the argument when a non-empty
\* one was supplied, and the configured default when the argument is absent
\* or is the empty string.
C7_NonEmptyCredentialsStored ==
    ConnectAccepted
        => /\ SucceededAsInfo
           /\ \A i \in 1..3 :
                 Stored[i] = IF last.args[i] \notin {None, ""} THEN last.args[i]
                             ELSE Defaults[i]

\* C7 witness: an accepted connect that was given a username, an empty
\* password and no address
C7_Witness ==
    /\ ConnectAccepted
    /\ last.args = <<None, "root", "">>
    /\ Stored = <<config.switch_ip, "root", DefaultPassword>>

\* C8: no manager operation terminates by raising, whatever the Device does.
C8_NoOperationRaises == last.raised = None

\* C9: on a Connected manager, for every known action: if the Device call
\* raises, the operation returns (false, message), appends exactly one ERROR
\* entry and no INFO entry and leaves the Device, connected and the
\* Credentials unchanged; if it succeeds, the operation returns success and
\* appends exactly one INFO entry.
C9_ActionOutcomeLogged ==
    [][(last'.op = "execute_port_security_action" /\ connected
            /\ last'.args[2] \in KnownActions)
          => LET new == SubSeq(history', Len(history) + 1, Len(history'))
             IN /\ last'.raised = None
                /\ Len(last'.called) = 1
                /\ IF last'.called[1][2] = "raised"
                   THEN /\ ~last'.ret.success
                        /\ last'.ret.message # ""
                        /\ Len(new) = 1
                        /\ new[1].level = "ERROR"
                        /\ switch' = switch
                        /\ connected' = connected
                        /\ current_credentials' = current_credentials
                   ELSE /\ last'.ret.success
                        /\ Len(new) = 1
                        /\ new[1].level = "INFO"]_vars

\* C9 witness: a known action on a connected mock session named an
\* interface the device does not have
C9_Witness ==
    /\ IsExecute
    /\ last.pre.connected
    /\ switch.kind = "mock"
    /\ last.args[1] \notin DOMAIN switch.interfaces
    /\ last.called = <<<<"enable_port_security", "raised", "ValueError">>>>
    /\ ~last.ret.success

\* C10: on a Connected manager, an action outside {enable, disable, clear,
\* status} returns (false, "Unknown action: <action>") and changes nothing:
\* the Device, connected, the Credentials and the audit log stay as they were.
C10_UnknownActionChangesNothing ==
    [][(last'.op = "execute_port_security_action" /\ connected
            /\ last'.args[2] \notin KnownActions)
          => /\ last'.ret = Tuple(FALSE, "Unknown action: " \o last'.args[2])
             /\ last'.called = <<>>
             /\ last'.raised = None
             /\ switch' = switch
             /\ connected' = connected
             /\ current_credentials' = current_credentials
             /\ logs' = logs]_vars

\* C10 witness: "reboot" was requested on a connected session
C10_Witness ==
    /\ IsExecute
    /\ last.pre.connected
    /\ last.args[2] = "reboot"
    /\ last.ret.message = "Unknown action: reboot"

\* An action the manager passed to a mock Device that has the interface
\* (unprimed: the state before the step; last': the operation of the step)
MockStep(action) ==
    /\ last'.op = "execute_port_security_action"
    /\ connected
    /\ switch.kind = "mock"
    /\ last'.args[2] = action
    /\ last'.args[1] \in DOMAIN switch.interfaces

StatusText(interface, status) ==
    "Port security status for " \o interface \o ":\n" \o ToString(status)

\* C11: on a connected mock session, enable sets port_security, the maximum
\* and the violation action of the interface to the values given and changes
\* nothing else in the table; a status that follows on the same interface
\* reports exactly those values and changes nothing.
C11_EnableThenStatus ==
    [][/\ MockStep("enable")
          => LET i == last'.args[1]
             IN /\ last'.ret.success
                /\ switch'.interfaces =
                      [switch.interfaces EXCEPT
                          ![i] = [@ EXCEPT !.port_security = TRUE,
                                           !.max_mac_addresses = last'.args[3],
                                           !.violation_action = last'.args[4]]]
       /\ (/\ MockStep("status")
           /\ last.op = "execute_port_security_action"
           /\ last.args[2] = "enable"
           /\ last.args[1] = last'.args[1]
           /\ last.ret.success)
          => LET i == last'.args[1]
             IN /\ last'.ret =
                      Tuple(TRUE, StatusText(i,
                          Interface(TRUE, last.args[3], last.args[4],
                                    switch.interfaces[i].learned_mac_addresses,
                                    switch.interfaces[i].status)))
                /\ switch' = switch]_vars

\* C11 witness: the scenario of the fixture: connect in mock mode, enable on
\* GigabitEthernet0/2 with maximum 3 and action restrict, then status
C11_Witness ==
    /\ IsExecute
    /\ last.args[1] = "GigabitEthernet0/2"
    /\ last.args[2] = "status"
    /\ last.ret.success
    /\ Len(history) = 4
    /\ history[3].message = "Enabled port security on GigabitEthernet0/2"
    /\ switch.interfaces["GigabitEthernet0/2"] = Interface(TRUE, 3, "restrict", <<>>, "down")

\* C12: on a connected mock session, clear leaves the interface with no
\* learned addresses and link status up, whatever its state was, and changes
\* nothing else: its other attributes and every other interface stay.
C12_ClearResetsInterface ==
    [][MockStep("clear")
          => LET i == last'.args[1]
             IN /\ last'.ret.success
                /\ switch'.interfaces =
                      [switch.interfaces EXCEPT
                          ![i] = [@ EXCEPT !.learned_mac_addresses = <<>>,
                                           !.status = "up"]]
                /\ switch'.interfaces[i].learned_mac_addresses = <<>>
                /\ switch'.interfaces[i].status = "up"]_vars

\* C12 witness: the first action of a mock session cleared GigabitEthernet0/2,
\* whose link status in the fixture is down
C12_Witness ==
    /\ IsExecute
    /\ last.args[1] = "GigabitEthernet0/2"
    /\ last.args[2] = "clear"
    /\ last.ret.success
    /\ Len(history) = 3
    /\ Fixture["GigabitEthernet0/2"].status = "down"
    /\ switch.interfaces["GigabitEthernet0/2"] = Interface(FALSE, 1, "restrict", <<>>, "up")

\* C13: on a connected mock session, disable leaves the interface with
\* port_security false and no learned addresses and changes nothing else;
\* a second disable of the same interface changes nothing at all.
C13_DisableIsIdempotent ==
    [][/\ MockStep("disable")
          => LET i == last'.args[1]
             IN /\ last'.ret.success
                /\ switch'.interfaces =
                      [switch.interfaces EXCEPT
                          ![i] = [@ EXCEPT !.port_security = FALSE,
                                           !.learned_mac_addresses = <<>>]]
       /\ (/\ MockStep("disable")
           /\ last.op = "execute_port_security_action"
           /\ last.args[2] = "disable"
           /\ last.args[1] = last'.args[1]
           /\ last.ret.success)
          => switch' = switch]_vars

\* C13 witness: GigabitEthernet0/3 (two learned addresses, maximum 3) was
\* disabled twice in a row
C13_Witness ==
    /\ IsExecute
    /\ last.args[1] = "GigabitEthernet0/3"
    /\ last.args[2] = "disable"
    /\ last.ret.success
    /\ Len(history) = 4
    /\ history[3].message = "Disabled port security on GigabitEthernet0/3"
    /\ switch.interfaces["GigabitEthernet0/3"] = Interface(FALSE, 3, "protect", <<>>, "up")

\* C14: in every state of the mock device, an interface with port_security
\* enabled has no more learned addresses than its maximum allows.
C14_LearnedWithinMaximum ==
    switch.kind = "mock"
        => \A i \in DOMAIN switch.interfaces :
              switch.interfaces[i].port_security
                 => Len(switch.interfaces[i].learned_mac_addresses)
                       <= switch.interfaces[i].max_mac_addresses

\* The names no device of the model has
UnknownInterface(interface) ==
    interface \notin {FixtureNames[i] : i \in 1..Len(FixtureNames)}

\* C15: for an interface name the device does not have, each of status,
\* enable, disable and clear fails with the not-found error (ValueError) on
\* the mock and on the remote driver alike (a failure of the remote session
\* itself aside), and on the mock the failing call leaves the table as it was.
C15_UnknownInterfaceNotFound ==
    [][(/\ last'.op = "execute_port_security_action"
        /\ connected
        /\ last'.args[2] \in KnownActions
        /\ UnknownInterface(last'.args[1]))
          => /\ Len(last'.called) = 1
             /\ last'.called[1][1] = MethodOf(last'.args[2])
             /\ last'.called[1][2] = "raised"
             /\ last'.called[1][3] \in {"ValueError", "Exception"}
             /\ switch.kind = "mock"
                   => (last'.called[1][3] = "ValueError" /\ switch' = switch)]_vars

\* C16: whenever the manager is Disconnected it holds no Device.
C16_DisconnectedHasNoDevice == ~connected => switch = NoSwitch

\* C17: while the manager is Connected the stored Credentials change only
\* through a disconnect, which sets them to null.
C17_CredentialsFixedWhileConnected ==
    [][(connected /\ current_credentials' # current_credentials)
          => /\ \E k \in 1..Len(last'.called) : last'.called[k][1] = "disconnect"
             /\ current_credentials' = NoCredentials]_vars

\* C18: after an update_config that carries mock_mode the manager is
\* Disconnected with null Credentials and the Device that had an open
\* session has had disconnect() called; an update_config that carries only
\* switch_ip leaves connected, the Credentials and the Device as they were.
C18_ModeChangeDisconnects ==
    [][last'.op = "update_config"
          => IF last'.args[1]
             THEN /\ ~connected'
                  /\ current_credentials' = NoCredentials
                  /\ HasOpenSession(switch)
                        => \E k \in 1..Len(last'.called) :
                              last'.called[k][1] = "disconnect"
             ELSE /\ connected' = connected
                  /\ current_credentials' = current_credentials
                  /\ switch' = switch]_vars

\* C20: whenever the manager is Connected, the Device it references has an
\* open session.
C20_ConnectedDeviceHasSession == connected => HasOpenSession(switch)

\* C19: every remote-driver operation that needs the session, attempted
\* while no session is open, fails with ConnectionError and no other kind.
C19_NoSessionIsConnectionError ==
    (/\ last.op = "driver_call"
     /\ switch.connection = None)
        => last.called = <<<<last.args[1], "raised", "ConnectionError">>>>

\* Both concurrent calls have returned
BothReturned == threads.cpc = "done" /\ threads.dpc = "done"

\* The flag and the credentials agree
FlagMatchesCredentials ==
    /\ connected => current_credentials # NoCredentials
    /\ ~connected => current_credentials = NoCredentials

\* C21 as stated: once a connect() and a disconnect() that interleaved statement
\* by statement without a lock have both returned, connected = TRUE implies stored
\* credentials and connected = FALSE implies none
C21_InterleavedCallsAgree == BothReturned => FlagMatchesCredentials

\* C21 amended: once a connect() and a disconnect() that ran one after the other,
\* in either order, have both returned, connected = TRUE implies stored
\* credentials and connected = FALSE implies none
C21_SerializedCallsAgree ==
    (BothReturned /\ ~threads.overlapped) => FlagMatchesCredentials

\* connect() ran to its end, then disconnect() ran to its end and emptied the manager
C21_Witness ==
    /\ BothReturned
    /\ ~threads.overlapped
    /\ Len(history) = 3
    /\ history[2].message = "Successfully connected to switch"
    /\ history[3].message = "Disconnected from switch"
    /\ ~connected

\* C22: right after a successful connect in mock mode, issued after a disconnect
\* or while connected, the device's interface table is the five-interface fixture
C22_ConnectRestoresFixture ==
    (last.op = "connect" /\ last.ret.success /\ last.pre.mock_mode)
        => (switch.kind = "mock" /\ switch.interfaces = Fixture)

\* A connect that follows a disconnect, after an enable changed the table of
\* the session before
C22_Witness ==
    /\ last.op = "connect"
    /\ last.ret.success
    /\ ~last.pre.connected
    /\ Len(history) = 6
    /\ history[3].message = "Enabled port security on GigabitEthernet0/3"
    /\ history[4].message = "Disconnected from switch"
    /\ switch.interfaces = Fixture

====
